---- MODULE Spec2Model ----
(***************************************************************************)
(* getSalesAnalysis: the sales-analysis report handler.                    *)
(*                                                                         *)
(* The handler awaits nine pool.query calls one after the other and turns  *)
(* each result's rows into one facet of the report.  Two levels are        *)
(* modelled with the same handler actions:                                 *)
(*   - the row level: the result of a query is any bounded sequence of     *)
(*     raw rows (columns may be null), or the query rejects;               *)
(*   - the store level: the result of a query is what its SQL text yields  *)
(*     on the two tables, which other sessions write between the awaits.   *)
(***************************************************************************)
EXTENDS Integers, Sequences, FiniteSets, TLC

(***************************************************************************)
(* JavaScript values.  Every value is a record whose single field names    *)
(* its kind, so values of different kinds compare unequal.  A string is    *)
(* a sequence of one-character strings.                                    *)
(***************************************************************************)
NULL == [null |-> TRUE]
UNDEFINED == [undef |-> TRUE]
NaN == [nan |-> TRUE]
Num(n) == [num |-> n]
Str(s) == [str |-> s]
\* a built-in object found on the prototype chain of {} (Object.prototype.constructor)
FnObject == [fn |-> "Object"]
\* an object literal is the record of its fields, and the field obj that marks it
IsObj(v) == "obj" \in DOMAIN v

IsNum(v) == DOMAIN v = {"num"}
IsStr(v) == DOMAIN v = {"str"}

s_empty == <<>>
s_X == <<"X">>
s_Y == <<"Y">>
s_Unknown == <<"U", "n", "k", "n", "o", "w", "n">>
s_constructor == <<"c", "o", "n", "s", "t", "r", "u", "c", "t", "o", "r">>
s_toString == <<"t", "o", "S", "t", "r", "i", "n", "g">>
s_valueOf == <<"v", "a", "l", "u", "e", "O", "f">>
s_null == <<"n", "u", "l", "l">>
s_NaN == <<"N", "a", "N">>
s_undefined == <<"u", "n", "d", "e", "f", "i", "n", "e", "d">>
s_fnObject == <<"f", "u", "n", "c", "t", "i", "o", "n", " ", "O", "b", "j", "e", "c", "t",
                "(", ")", " ", "{", " ", "[", "n", "a", "t", "i", "v", "e", " ",
                "c", "o", "d", "e", "]", " ", "}">>
s_booked == <<"b", "o", "o", "k", "e", "d">>
s_paid == <<"p", "a", "i", "d">>
s_PAID == <<"P", "A", "I", "D">>
s_dispatched == <<"d", "i", "s", "p", "a", "t", "c", "h", "e", "d">>
s_packed == <<"p", "a", "c", "k", "e", "d">>
s_delivered == <<"d", "e", "l", "i", "v", "e", "r", "e", "d">>
s_pending == <<"p", "e", "n", "d", "i", "n", "g">>
s_Pending == <<"P", "e", "n", "d", "i", "n", "g">>
s_canceled == <<"c", "a", "n", "c", "e", "l", "e", "d">>
s_draft == <<"d", "r", "a", "f", "t">>
s_booking == <<"b", "o", "o", "k", "i", "n", "g">>
s_quotation == <<"q", "u", "o", "t", "a", "t", "i", "o", "n">>
s_both == <<"b", "o", "t", "h">>

Whitespace == {" ", "\t", "\n"}
DigitChars == <<"0", "1", "2", "3", "4", "5", "6", "7", "8", "9">>
IsDigit(c) == \E i \in 1..10 : DigitChars[i] = c
DigitVal(c) == (CHOOSE i \in 1..10 : DigitChars[i] = c) - 1

\* String.prototype.trim
RECURSIVE TrimLeft(_)
TrimLeft(s) ==
  IF s # <<>> /\ Head(s) \in Whitespace THEN TrimLeft(Tail(s)) ELSE s
RECURSIVE TrimRight(_)
TrimRight(s) ==
  IF s # <<>> /\ s[Len(s)] \in Whitespace THEN TrimRight(SubSeq(s, 1, Len(s) - 1)) ELSE s
Trim(s) == TrimRight(TrimLeft(s))

\* Number::toString for integers
RECURSIVE NatToString(_)
NatToString(n) ==
  IF n < 10 THEN <<DigitChars[n + 1]>>
  ELSE NatToString(n \div 10) \o <<DigitChars[(n % 10) + 1]>>
IntToString(n) == IF n < 0 THEN <<"-">> \o NatToString(-n) ELSE NatToString(n)

\* ToString (the abstract operation)
JsToString(v) ==
  CASE IsStr(v) -> v.str
    [] IsNum(v) -> IntToString(v.num)
    [] v = NULL -> s_null
    [] v = UNDEFINED -> s_undefined
    [] v = NaN -> s_NaN
    [] v = FnObject -> s_fnObject

\* the value of the longest prefix of decimal digits of s (acc: the value so far)
RECURSIVE DigitsValue(_, _)
DigitsValue(s, acc) ==
  IF s # <<>> /\ IsDigit(Head(s)) THEN DigitsValue(Tail(s), 10 * acc + DigitVal(Head(s)))
  ELSE acc

\* the number a string starts with, after leading white space and an optional
\* sign; NaN when no digit follows.  Integer-valued decimal strings only: no
\* input of the model carries a fraction, an exponent or "Infinity".
ParseNumber(s) ==
  LET t == TrimLeft(s)
      neg == t # <<>> /\ Head(t) = "-"
      u == IF t # <<>> /\ Head(t) \in {"-", "+"} THEN Tail(t) ELSE t
  IN IF u # <<>> /\ IsDigit(Head(u))
     THEN Num(IF neg THEN -DigitsValue(u, 0) ELSE DigitsValue(u, 0))
     ELSE NaN

parseInt(v) == ParseNumber(JsToString(v))
parseFloat(v) == ParseNumber(JsToString(v))

\* ToBoolean
Truthy(v) ==
  CASE IsNum(v) -> v.num # 0
    [] IsStr(v) -> v.str # <<>>
    [] v = FnObject -> TRUE
    [] IsObj(v) -> TRUE
    [] OTHER -> FALSE

\* a || b
Or(a, b) == IF Truthy(a) THEN a ELSE b

\* ToNumber
ToNumber(v) ==
  CASE IsNum(v) -> v
    [] v = NULL -> Num(0)
    [] IsStr(v) ->
         LET t == Trim(v.str)
             u == IF t # <<>> /\ Head(t) \in {"-", "+"} THEN Tail(t) ELSE t
         IN IF t = <<>> THEN Num(0)
            ELSE IF u # <<>> /\ \A i \in 1..Len(u) : IsDigit(u[i]) THEN ParseNumber(t)
            ELSE NaN
    [] OTHER -> NaN

\* a + b: concatenation when either operand is a string or an object
Plus(a, b) ==
  IF IsStr(a) \/ IsStr(b) \/ a = FnObject \/ b = FnObject
  THEN Str(JsToString(a) \o JsToString(b))
  ELSE IF IsNum(ToNumber(a)) /\ IsNum(ToNumber(b))
       THEN Num(ToNumber(a).num + ToNumber(b).num)
       ELSE NaN

\* a - b
Minus(a, b) ==
  IF IsNum(ToNumber(a)) /\ IsNum(ToNumber(b))
  THEN Num(ToNumber(a).num - ToNumber(b).num)
  ELSE NaN

\* Math.min, Math.max of two numbers
MathMin(a, b) ==
  IF IsNum(a) /\ IsNum(b) THEN (IF a.num <= b.num THEN a ELSE b) ELSE NaN
MathMax(a, b) ==
  IF IsNum(a) /\ IsNum(b) THEN (IF a.num >= b.num THEN a ELSE b) ELSE NaN

(***************************************************************************)
(* Plain objects used as maps ({}): the own properties in insertion order, *)
(* as a sequence of [k, v], over the properties every object inherits.     *)
(* No key of the model is an integer index or "__proto__".                 *)
(***************************************************************************)
InheritedKeys == {s_constructor, s_toString, s_valueOf}

HasOwn(o, k) == \E i \in 1..Len(o) : o[i].k = k
OwnIndex(o, k) == CHOOSE i \in 1..Len(o) : o[i].k = k
\* o[k]
Get(o, k) ==
  IF HasOwn(o, k) THEN o[OwnIndex(o, k)].v
  ELSE IF k \in InheritedKeys THEN FnObject
  ELSE UNDEFINED
\* o[k] = v
Set(o, k, v) ==
  IF HasOwn(o, k) THEN [o EXCEPT ![OwnIndex(o, k)].v = v]
  ELSE Append(o, [k |-> k, v |-> v])
\* Object.values(o)
ObjectValues(o) == [i \in 1..Len(o) |-> o[i].v]


(***************************************************************************)
(* 2. Product sales summary                                                *)
(***************************************************************************)
\* the reducer of productSummary
ProductStep(acc, row) ==
  LET name == IF row.productname \in {NULL, UNDEFINED} THEN UNDEFINED
              ELSE Str(Trim(row.productname.str))
      qty == Or(parseInt(row.quantity), Num(0))
  IN IF ~Truthy(name) THEN acc
     ELSE Set(acc, name.str, Plus(Or(Get(acc, name.str), Num(0)), qty))

\* products.rows.reduce(..., acc), left to right
RECURSIVE ProductReduce(_, _)
ProductReduce(acc, rows) ==
  IF rows = <<>> THEN acc ELSE ProductReduce(ProductStep(acc, Head(rows)), Tail(rows))

productSummaryOf(rows) == ProductReduce(<<>>, rows)

\* Object.entries(productSummary).map(([productname, quantity]) => ({...}))
ProductEntries(summary) ==
  [i \in 1..Len(summary) |-> [productname |-> Str(summary[i].k), quantity |-> summary[i].v]]

\* (a, b) => b.quantity - a.quantity, as SortCompare reads it: NaN counts as +0
CompareQuantity(a, b) ==
  LET d == Minus(b.quantity, a.quantity)
  IN IF IsNum(d) THEN d.num ELSE 0

\* a consistent comparator for the elements of s (ECMAScript, Array.prototype.sort)
ConsistentOn(s) ==
  LET I == 1..Len(s)
      c(i, j) == CompareQuantity(s[i], s[j])
  IN /\ \A i, j \in I : (c(i, j) < 0) = (c(j, i) > 0)
     /\ \A i, j, k \in I : c(i, j) = 0 /\ c(j, k) = 0 => c(i, k) = 0
     /\ \A i, j, k \in I : c(i, j) < 0 /\ c(j, k) < 0 => c(i, k) < 0
     /\ \A i, j, k \in I : c(i, j) = 0 /\ c(j, k) < 0 => c(i, k) < 0
     /\ \A i, j, k \in I : c(i, j) < 0 /\ c(j, k) = 0 => c(i, k) < 0

\* x put into the sorted sequence s behind every element that does not come after it
RECURSIVE InsertSorted(_, _)
InsertSorted(s, x) ==
  IF s = <<>> THEN <<x>>
  ELSE IF CompareQuantity(Head(s), x) > 0 THEN <<x>> \o s
  ELSE <<Head(s)>> \o InsertSorted(Tail(s), x)
RECURSIVE StableSort(_)
StableSort(s) ==
  IF s = <<>> THEN <<>>
  ELSE InsertSorted(StableSort(SubSeq(s, 1, Len(s) - 1)), s[Len(s)])

Orderings(s) ==
  {[i \in 1..Len(s) |-> s[p[i]]] :
     p \in {q \in [1..Len(s) -> 1..Len(s)] : \A i, j \in 1..Len(s) : i # j => q[i] # q[j]}}

\* the results .sort(...) may give: the stable order under a consistent
\* comparator, an implementation-defined order otherwise
SortOutcomes(s) == IF ConsistentOn(s) THEN {StableSort(s)} ELSE Orderings(s)

productDataOf(rows) == SortOutcomes(ProductEntries(productSummaryOf(rows)))

(***************************************************************************)
(* 3. Regional demand                                                      *)
(***************************************************************************)
NewCity(district) ==
  [obj |-> TRUE, district |-> district, booking_count |-> Num(0),
   quotation_count |-> Num(0), booking_amount |-> Num(0), quotation_amount |-> Num(0)]

\* the forEach body of combineCityData.  When map[district] is an inherited
\* built-in, no own entry is made and the += lands on that built-in object.
CityStep(map, row, type) ==
  LET district == Or(row.district, Str(s_Unknown))
      key == JsToString(district)
      m1 == IF ~Truthy(Get(map, key)) THEN Set(map, key, NewCity(district)) ELSE map
      c == Get(m1, key)
  IN IF ~HasOwn(m1, key) THEN m1
     ELSE IF type = Str(s_booking)
       THEN Set(m1, key, [c EXCEPT
              !.booking_count = Plus(@, parseInt(row.count)),
              !.booking_amount = Plus(@, parseFloat(row.total_amount))])
       ELSE Set(m1, key, [c EXCEPT
              !.quotation_count = Plus(@, parseInt(row.count)),
              !.quotation_amount = Plus(@, parseFloat(row.total_amount))])

\* [...].forEach(row => ...), left to right
RECURSIVE CityForEach(_, _, _)
CityForEach(map, rs, type) ==
  IF rs = <<>> THEN map ELSE CityForEach(CityStep(map, Head(rs), type), Tail(rs), type)

combineCityData(bookingRows, quotationRows, type) ==
  ObjectValues(CityForEach(<<>>, bookingRows \o quotationRows, type))

\* the call site: combineCityData(cityBookings.rows, cityQuotations.rows, 'both')
cityDataOf(bookingRows, quotationRows) ==
  combineCityData(bookingRows, quotationRows, Str(s_both))

(***************************************************************************)
(* 4. Historical trends                                                    *)
(***************************************************************************)
\* the trend point with the paid amount passed through as read
TrendPointUncapped(row) ==
  LET total == Or(parseFloat(row.total_amount), Num(0))
      paid == Or(parseFloat(row.amount_paid), Num(0))
  IN [month |-> row.month,
      volume |-> Or(parseInt(row.volume), Num(0)),
      total_amount |-> total,
      amount_paid |-> paid,
      unpaid_amount |-> MathMax(Num(0), Minus(total, paid))]

TrendPoint(row) ==
  LET total == Or(parseFloat(row.total_amount), Num(0))
      paid == Or(parseFloat(row.amount_paid), Num(0))
      unpaid == Minus(total, paid)
  IN [month |-> row.month,
      volume |-> Or(parseInt(row.volume), Num(0)),
      total_amount |-> total,
      amount_paid |-> MathMin(paid, total),
      unpaid_amount |-> MathMax(Num(0), unpaid)]

trendDataArrayOf(rows) == [i \in 1..Len(rows) |-> TrendPoint(rows[i])]

(***************************************************************************)
(* 5. Profitability                                                        *)
(***************************************************************************)
profitDataOf(rows) ==
  LET profitRow == IF rows # <<>> THEN rows[1]
                   ELSE [total_amount |-> Num(0), amount_paid |-> Num(0)]
      totalAmount == Or(parseFloat(profitRow.total_amount), Num(0))
      amountPaid == Or(parseFloat(profitRow.amount_paid), Num(0))
  IN [total_amount |-> totalAmount,
      amount_paid |-> amountPaid,
      unpaid_amount |-> MathMax(Num(0), Minus(totalAmount, amountPaid))]

(***************************************************************************)
(* 6. Quotation conversion rates                                           *)
(***************************************************************************)
EmptyBucket == [obj |-> TRUE, count |-> Num(0), total_amount |-> Num(0)]
InitialQuotationSummary ==
  <<[k |-> s_pending, v |-> EmptyBucket],
    [k |-> s_booked, v |-> EmptyBucket],
    [k |-> s_canceled, v |-> EmptyBucket]>>

\* the forEach body without the default status: a row of absent status is dropped
QuotationStepNoDefault(summary, row) ==
  LET key == JsToString(row.status)
      b == Get(summary, key)
  IN IF row.status = NULL \/ b = UNDEFINED \/ ~HasOwn(summary, key) THEN summary
     ELSE Set(summary, key, [b EXCEPT
            !.count = Plus(@, parseInt(row.count)),
            !.total_amount = Plus(@, Or(parseFloat(row.total_amount), Num(0)))])

\* the forEach body: quotationSummary[status] !== undefined also holds of an
\* inherited built-in, and the += then lands on that built-in object
QuotationStep(summary, row) ==
  LET status == Or(row.status, Str(s_canceled))
      key == JsToString(status)
      b == Get(summary, key)
  IN IF b = UNDEFINED \/ ~HasOwn(summary, key) THEN summary
     ELSE Set(summary, key, [b EXCEPT
            !.count = Plus(@, parseInt(row.count)),
            !.total_amount = Plus(@, Or(parseFloat(row.total_amount), Num(0)))])

\* quotations.rows.forEach(row => ...), left to right
RECURSIVE QuotationForEach(_, _)
QuotationForEach(summary, rs) ==
  IF rs = <<>> THEN summary
  ELSE QuotationForEach(QuotationStep(summary, Head(rs)), Tail(rs))

quotationSummaryOf(rows) ==
  LET s == QuotationForEach(InitialQuotationSummary, rows)
  IN [pending |-> Get(s, s_pending),
      booked |-> Get(s, s_booked),
      canceled |-> Get(s, s_canceled)]

(***************************************************************************)
(* 7. Customer types, 8. Cancellations                                     *)
(***************************************************************************)
customerTypeDataOf(rows) ==
  [i \in 1..Len(rows) |->
     [customer_type |-> Or(rows[i].customer_type, Str(s_Unknown)),
      count |-> parseInt(rows[i].count),
      total_amount |-> Or(parseFloat(rows[i].total_amount), Num(0))]]

cancellationDataOf(rows) ==
  [i \in 1..Len(rows) |->
     [type |-> rows[i].type,
      order_id |-> rows[i].order_id,
      total |-> Or(parseFloat(rows[i].total), Num(0)),
      created_at |-> rows[i].created_at]]

(***************************************************************************)
(* The handler.                                                            *)
(*   pc         the await the invocation is suspended at, or "done"        *)
(*   rows       the .rows of each query that has returned, by its const    *)
(*   local      the facet consts assigned so far                           *)
(*   err        the query whose rejection was caught, or "none"            *)
(*   responses  what res.status(..).json(..) has sent                      *)
(*   bookings, fwcquotations   the two tables (store level)                *)
(*   commits    the writes other sessions have committed since the         *)
(*              invocation began                                           *)
(***************************************************************************)
VARIABLES pc, rows, local, err, responses, bookings, fwcquotations, commits

vars == <<pc, rows, local, err, responses, bookings, fwcquotations, commits>>
store == <<bookings, fwcquotations, commits>>

QueryNames == {"validateProducts", "products", "cityBookings", "cityQuotations",
               "historical", "profitability", "quotations", "customerTypes",
               "cancellations"}

\* before the first await no query has returned and no const is bound
NothingYet == <<>>

\* pool.query(...) resolved with r
Returned(q, r) == rows' = (q :> r) @@ rows
\* const name = v
Assigned(name, v) == local' = (name :> v) @@ local

\* === 1. Validate JSONB structure for products === (the result is not used)
QValidateProducts(D) ==
  /\ pc = "validateProducts"
  /\ \E r \in D.validateProducts : Returned("validateProducts", r)
  /\ pc' = "products"
  /\ UNCHANGED <<local, err, responses, store>>

QProducts(D) ==
  /\ pc = "products"
  /\ \E r \in D.products :
       /\ Returned("products", r)
       /\ \E pd \in productDataOf(r) : Assigned("productData", pd)
  /\ pc' = "cityBookings"
  /\ UNCHANGED <<err, responses, store>>

QCityBookings(D) ==
  /\ pc = "cityBookings"
  /\ \E r \in D.cityBookings : Returned("cityBookings", r)
  /\ pc' = "cityQuotations"
  /\ UNCHANGED <<local, err, responses, store>>

QCityQuotations(D) ==
  /\ pc = "cityQuotations"
  /\ \E r \in D.cityQuotations :
       /\ Returned("cityQuotations", r)
       /\ Assigned("cityData", cityDataOf(rows.cityBookings, r))
  /\ pc' = "historical"
  /\ UNCHANGED <<err, responses, store>>

QHistorical(D) ==
  /\ pc = "historical"
  /\ \E r \in D.historical :
       /\ Returned("historical", r)
       /\ Assigned("trendDataArray", trendDataArrayOf(r))
  /\ pc' = "profitability"
  /\ UNCHANGED <<err, responses, store>>

QProfitability(D) ==
  /\ pc = "profitability"
  /\ \E r \in D.profitability :
       /\ Returned("profitability", r)
       /\ Assigned("profitData", profitDataOf(r))
  /\ pc' = "quotations"
  /\ UNCHANGED <<err, responses, store>>

QQuotations(D) ==
  /\ pc = "quotations"
  /\ \E r \in D.quotations :
       /\ Returned("quotations", r)
       /\ Assigned("quotationSummary", quotationSummaryOf(r))
  /\ pc' = "customerTypes"
  /\ UNCHANGED <<err, responses, store>>

QCustomerTypes(D) ==
  /\ pc = "customerTypes"
  /\ \E r \in D.customerTypes :
       /\ Returned("customerTypes", r)
       /\ Assigned("customerTypeData", customerTypeDataOf(r))
  /\ pc' = "cancellations"
  /\ UNCHANGED <<err, responses, store>>

\* the object handed to res.status(200).json
Report(l) ==
  [products |-> l.productData,
   cities |-> l.cityData,
   trends |-> l.trendDataArray,
   profitability |-> l.profitData,
   quotations |-> l.quotationSummary,
   customer_types |-> l.customerTypeData,
   cancellations |-> l.cancellationData]

\* the last await, and the final response sent in the same turn
QCancellations(D) ==
  /\ pc = "cancellations"
  /\ \E r \in D.cancellations :
       /\ Returned("cancellations", r)
       /\ Assigned("cancellationData", cancellationDataOf(r))
  /\ responses' = Append(responses, [status |-> 200, body |-> Report(local')])
  /\ pc' = "done"
  /\ UNCHANGED <<err, store>>

\* a catch block that logs the rejection and sends nothing
CatchSwallows(q) ==
  /\ err' = q
  /\ pc' = "done"
  /\ UNCHANGED <<rows, local, responses, store>>

\* the catch block, for the rejection of the query q
Catch(q) ==
  /\ err' = q
  /\ responses' = Append(responses,
       [status |-> 500,
        body |-> [message |-> "Failed to fetch sales analysis", error |-> q]])
  /\ pc' = "done"
  /\ UNCHANGED <<rows, local, store>>

\* the awaited query rejects
QueryRejects ==
  /\ pc \in QueryNames
  /\ Catch(pc)

Handler(D) ==
  \/ QValidateProducts(D)
  \/ QProducts(D)
  \/ QCityBookings(D)
  \/ QCityQuotations(D)
  \/ QHistorical(D)
  \/ QProfitability(D)
  \/ QQuotations(D)
  \/ QCustomerTypes(D)
  \/ QCancellations(D)
  \/ QueryRejects

InitHandler ==
  /\ pc = "validateProducts"
  /\ rows = NothingYet
  /\ local = NothingYet
  /\ err = "none"
  /\ responses = <<>>

(***************************************************************************)
(* Row level: what a query may return.                                     *)
(* node-postgres hands bigint and numeric columns (COUNT, SUM) over as     *)
(* decimal strings and integer columns as numbers; any column may be null. *)
(***************************************************************************)
MaxRows == 2

SeqsUpTo(S, n) == UNION {[1..k -> S] : k \in 0..n}
\* the sequences of S in which no two rows agree on the column col (GROUP BY col)
Grouped(S, col, n) ==
  {r \in SeqsUpTo(S, n) : \A i, j \in 1..Len(r) : i # j => r[i][col] # r[j][col]}

ProductNames ==
  {NULL, Str(<<" ">>), Str(<<"A">>), Str(<<" ", "A", " ">>), Str(<<"B">>), Str(s_constructor)}
Quantities == {NULL, Num(1), Num(2)}
ProductRows == [productname : ProductNames, quantity : Quantities]

Districts == {NULL, Str(s_empty), Str(s_X), Str(s_Unknown), Str(s_constructor)}
Counts == {NULL, Str(<<"2">>)}
CityAmounts == {NULL, Str(<<"3">>)}
CityRows == [district : Districts, count : Counts, total_amount : CityAmounts]

s_100 == <<"1", "0", "0">>
s_150 == <<"1", "5", "0">>
Amounts == {NULL, Str(<<"-", "1">>), Str(<<"0">>), Str(s_100), Str(s_150)}
Volumes == {NULL, Str(<<"2">>)}
\* the month of the i-th row: ORDER BY DATE_TRUNC('month', created_at)
MonthOf(i) == Str(<<"2", "0", "2", "4", "-", "0", DigitChars[i + 1]>>)
TrendRowSeqs(n) ==
  {[i \in 1..Len(r) |-> [month |-> MonthOf(i), volume |-> r[i].volume,
                         total_amount |-> r[i].total_amount,
                         amount_paid |-> r[i].amount_paid]] :
     r \in SeqsUpTo([volume : Volumes, total_amount : Amounts, amount_paid : Amounts], n)}

\* one row of two SUMs: both null (no order) or both numbers
ProfitRows ==
  {[total_amount |-> NULL, amount_paid |-> NULL]}
    \cup [total_amount : Amounts \ {NULL}, amount_paid : Amounts \ {NULL}]

QuotationStatuses ==
  {NULL, Str(s_empty), Str(s_pending), Str(s_booked), Str(s_canceled), Str(s_draft),
   Str(s_constructor)}
QuotationRows == [status : QuotationStatuses, count : Counts, total_amount : CityAmounts]

SampleProbeRows ==
  <<[source |-> Str(<<"b">>), invalid_count |-> Str(<<"0">>)],
    [source |-> Str(<<"f">>), invalid_count |-> Str(<<"1">>)]>>
SampleProductRow == [productname |-> Str(<<"A">>), quantity |-> Num(1)]
SampleCityRow == [district |-> Str(s_X), count |-> Str(<<"1">>), total_amount |-> Str(<<"3">>)]
SampleTrendRow ==
  [month |-> MonthOf(1), volume |-> Str(<<"1">>), total_amount |-> Str(<<"2">>),
   amount_paid |-> Str(<<"1">>)]
SampleProfitRow == [total_amount |-> Str(<<"2">>), amount_paid |-> Str(<<"1">>)]
NullProfitRow == [total_amount |-> NULL, amount_paid |-> NULL]
SampleQuotationRow ==
  [status |-> Str(s_pending), count |-> Str(<<"1">>), total_amount |-> Str(<<"3">>)]
SampleCustomerTypeRow ==
  [customer_type |-> Str(<<"R">>), count |-> Str(<<"1">>), total_amount |-> Str(<<"2">>)]
SampleCancellationRow ==
  [type |-> Str(s_booking), order_id |-> Str(<<"7">>), total |-> Str(<<"2">>),
   created_at |-> Num(1)]

\* every query answers for empty tables (the two SUMs of no row are null)
Quiet ==
  [validateProducts |-> {SampleProbeRows},
   products |-> {<<>>},
   cityBookings |-> {<<>>},
   cityQuotations |-> {<<>>},
   historical |-> {<<>>},
   profitability |-> {<<NullProfitRow>>},
   quotations |-> {<<>>},
   customerTypes |-> {<<>>},
   cancellations |-> {<<>>}]

\* every query answers for empty tables or with one plain row
Small ==
  [validateProducts |-> {SampleProbeRows},
   products |-> {<<>>, <<SampleProductRow>>},
   cityBookings |-> {<<>>, <<SampleCityRow>>},
   cityQuotations |-> {<<>>, <<SampleCityRow>>},
   historical |-> {<<>>, <<SampleTrendRow>>},
   profitability |-> {<<NullProfitRow>>, <<SampleProfitRow>>},
   quotations |-> {<<>>, <<SampleQuotationRow>>},
   customerTypes |-> {<<>>, <<SampleCustomerTypeRow>>},
   cancellations |-> {<<>>, <<SampleCancellationRow>>}]

WithProducts == [Quiet EXCEPT !.products = SeqsUpTo(ProductRows, MaxRows)]
WithCities ==
  [Quiet EXCEPT !.cityBookings = Grouped(CityRows, "district", MaxRows),
                !.cityQuotations = Grouped(CityRows, "district", MaxRows)]
WithTrends == [Quiet EXCEPT !.historical = TrendRowSeqs(MaxRows)]
WithProfit == [Quiet EXCEPT !.profitability = SeqsUpTo(ProfitRows, 1)]
WithQuotations == [Quiet EXCEPT !.quotations = Grouped(QuotationRows, "status", MaxRows)]

InitRows ==
  /\ InitHandler
  /\ bookings = <<>>
  /\ fwcquotations = <<>>
  /\ commits = 0

\* the handler with plain results: the control flow
Spec == InitRows /\ [][Handler(Small)]_vars
\* the handler with one query's result ranging over its raw rows
SpecProducts == InitRows /\ [][Handler(WithProducts)]_vars
SpecCities == InitRows /\ [][Handler(WithCities)]_vars
SpecTrends == InitRows /\ [][Handler(WithTrends)]_vars
SpecProfit == InitRows /\ [][Handler(WithProfit)]_vars
SpecQuotations == InitRows /\ [][Handler(WithQuotations)]_vars

(***************************************************************************)
(* Store level: the two tables and what each SQL text yields on them.      *)
(* A table is the sequence of its records; a booking is                    *)
(*   [order_id, status, total, amount_paid, district, customer_type,       *)
(*    created_at (its month, a number), products (null or a JSON array)]   *)
(* and a quotation [quotation_id, status, total, district, created_at,     *)
(* products].  No products column of the model holds a JSON value that is  *)
(* not an array, and every line item has both of its keys.                 *)
(***************************************************************************)
UpperChars == <<"A", "B", "C", "D", "E", "F", "G", "H", "I", "J", "K", "L", "M",
                "N", "O", "P", "Q", "R", "S", "T", "U", "V", "W", "X", "Y", "Z">>
LowerChars == <<"a", "b", "c", "d", "e", "f", "g", "h", "i", "j", "k", "l", "m",
                "n", "o", "p", "q", "r", "s", "t", "u", "v", "w", "x", "y", "z">>
LowerChar(c) ==
  IF \E i \in 1..26 : UpperChars[i] = c
  THEN LowerChars[CHOOSE i \in 1..26 : UpperChars[i] = c]
  ELSE c
\* LOWER(text); LOWER(NULL) is NULL
LOWER(v) == IF v = NULL THEN NULL ELSE Str([i \in 1..Len(v.str) |-> LowerChar(v.str[i])])

ConfirmedStatuses == {s_booked, s_paid, s_dispatched, s_packed, s_delivered}
PipelineStatuses == {s_pending, s_booked}
\* v IN (...): not true of NULL
InList(v, S) == v # NULL /\ v.str \in S

\* COALESCE(v::numeric, 0)
Coalesce0(v) == IF v = NULL THEN 0 ELSE v.num
\* a bigint or numeric as node-postgres hands it over
Numeric(n) == Str(IntToString(n))


\* the orders a result without ORDER BY may come in
SeqsOfSet(S) ==
  {q \in [1..Cardinality(S) -> S] : \A i, j \in 1..Cardinality(S) : i # j => q[i] # q[j]}

\* WHERE LOWER(status) IN ('booked', 'paid', 'dispatched', 'packed', 'delivered')
IsConfirmed(b) == InList(LOWER(b.status), ConfirmedStatuses)
\* WHERE LOWER(status) IN ('pending', 'booked')
IsPipeline(q) == InList(LOWER(q.status), PipelineStatuses)
\* WHERE LOWER(status) = 'canceled'
IsCanceled(r) == InList(LOWER(r.status), {s_canceled})
\* the probe's filters: status IN (...), with no LOWER
IsConfirmedAsSpelled(b) == InList(b.status, ConfirmedStatuses)
IsPipelineAsSpelled(q) == InList(q.status, PipelineStatuses)
\* products IS NULL OR jsonb_typeof(products::jsonb) != 'array'
NotAnArray(r) == r.products = NULL \/ "array" \notin DOMAIN r.products

\* === 1 === the probe: one row per table
SqlValidateProducts(bk, fq) ==
  {<<[source |-> Str(<<"b">>),
      invalid_count |-> Numeric(Len(SelectSeq(SelectSeq(bk, IsConfirmedAsSpelled), NotAnArray)))],
     [source |-> Str(<<"f">>),
      invalid_count |-> Numeric(Len(SelectSeq(SelectSeq(fq, IsPipelineAsSpelled), NotAnArray)))]>>}

\* the line items of the bookings of t, flattened
\* a jsonb array
JsonArray(items) == [array |-> items]

RECURSIVE LineItems(_)
LineItems(t) ==
  IF t = <<>> THEN <<>>
  ELSE (IF Head(t).products = NULL THEN <<>> ELSE Head(t).products.array) \o LineItems(Tail(t))

\* === 2 ===
SqlProducts(bk) ==
  LET items == LineItems(SelectSeq(bk, IsConfirmed))
  IN {[i \in 1..Len(items) |-> items[p[i]]] : p \in SeqsOfSet(1..Len(items))}

HasDistrict(t, d) == {i \in 1..Len(t) : t[i].district = d}
\* SUM(COALESCE(col::numeric, 0)) over the records of t at the places I
RECURSIVE SumAt(_, _, _)
SumAt(t, I, col) ==
  IF I = {} THEN 0
  ELSE LET i == CHOOSE x \in I : TRUE
       IN Coalesce0(t[i][col]) + SumAt(t, I \ {i}, col)

\* SELECT district, COUNT(*), SUM(COALESCE(total::numeric, 0)) ... GROUP BY district
GroupByDistrict(t) ==
  LET groups == {[district |-> d,
                  count |-> Numeric(Cardinality(HasDistrict(t, d))),
                  total_amount |-> Numeric(SumAt(t, HasDistrict(t, d), "total"))] :
                   d \in {t[i].district : i \in 1..Len(t)}}
  IN SeqsOfSet(groups)

\* === 3 ===
SqlCityBookings(bk) == GroupByDistrict(SelectSeq(bk, IsConfirmed))
SqlCityQuotations(fq) == GroupByDistrict(SelectSeq(fq, IsPipeline))

InMonth(t, m) == {i \in 1..Len(t) : t[i].created_at = m}
\* the months of t in ascending order
RECURSIVE MonthsAscending(_)
MonthsAscending(M) ==
  IF M = {} THEN <<>>
  ELSE LET m == CHOOSE x \in M : \A y \in M : x <= y
       IN <<m>> \o MonthsAscending(M \ {m})

\* === 4 === GROUP BY and ORDER BY DATE_TRUNC('month', created_at)
SqlHistorical(bk) ==
  LET t == SelectSeq(bk, IsConfirmed)
      months == MonthsAscending({t[i].created_at : i \in 1..Len(t)})
  IN {[k \in 1..Len(months) |->
        [month |-> MonthOf(months[k]),
         volume |-> Numeric(Cardinality(InMonth(t, months[k]))),
         total_amount |-> Numeric(SumAt(t, InMonth(t, months[k]), "total")),
         amount_paid |-> Numeric(SumAt(t, InMonth(t, months[k]), "amount_paid"))]]}

\* the two SUMs over every booking, whatever its status
SqlProfitabilityAllOrders(bk) ==
  {<<IF bk = <<>> THEN [total_amount |-> NULL, amount_paid |-> NULL]
     ELSE [total_amount |-> Numeric(SumAt(bk, DOMAIN bk, "total")),
           amount_paid |-> Numeric(SumAt(bk, DOMAIN bk, "amount_paid"))]>>}

\* === 5 === one row; the SUM of no row is NULL
SqlProfitability(bk) ==
  LET t == SelectSeq(bk, IsConfirmed)
  IN {<<IF t = <<>> THEN [total_amount |-> NULL, amount_paid |-> NULL]
        ELSE [total_amount |-> Numeric(SumAt(t, DOMAIN t, "total")),
              amount_paid |-> Numeric(SumAt(t, DOMAIN t, "amount_paid"))]>>}

HasLowerStatus(t, st) == {i \in 1..Len(t) : LOWER(t[i].status) = st}
\* === 6 === GROUP BY LOWER(status)
SqlQuotations(fq) ==
  SeqsOfSet({[status |-> st,
              count |-> Numeric(Cardinality(HasLowerStatus(fq, st))),
              total_amount |-> Numeric(SumAt(fq, HasLowerStatus(fq, st), "total"))] :
               st \in {LOWER(fq[i].status) : i \in 1..Len(fq)}})

HasCustomerType(t, c) == {i \in 1..Len(t) : t[i].customer_type = c}
\* === 7 === ... AND customer_type IS NOT NULL GROUP BY customer_type
SqlCustomerTypes(bk) ==
  LET t == SelectSeq(bk, IsConfirmed)
  IN SeqsOfSet({[customer_type |-> c,
                 count |-> Numeric(Cardinality(HasCustomerType(t, c))),
                 total_amount |-> Numeric(SumAt(t, HasCustomerType(t, c), "total"))] :
                  c \in {t[i].customer_type : i \in 1..Len(t)} \ {NULL}})

\* === 8 === UNION ALL ... ORDER BY created_at DESC (rows of one month in any order)
SqlCancellations(bk, fq) ==
  LET cb == SelectSeq(bk, IsCanceled)
      cq == SelectSeq(fq, IsCanceled)
      all == {[type |-> Str(s_booking), order_id |-> cb[i].order_id,
               total |-> Numeric(Coalesce0(cb[i].total)), created_at |-> Num(cb[i].created_at)] :
                i \in 1..Len(cb)}
             \cup
             {[type |-> Str(s_quotation), order_id |-> cq[i].quotation_id,
               total |-> Numeric(Coalesce0(cq[i].total)), created_at |-> Num(cq[i].created_at)] :
                i \in 1..Len(cq)}
  IN {q \in SeqsOfSet(all) :
        \A i, j \in 1..Len(q) : i < j => q[i].created_at.num >= q[j].created_at.num}

\* what each query answers on the tables bk, fq
Answers(bk, fq) ==
  [validateProducts |-> SqlValidateProducts(bk, fq),
   products |-> SqlProducts(bk),
   cityBookings |-> SqlCityBookings(bk),
   cityQuotations |-> SqlCityQuotations(fq),
   historical |-> SqlHistorical(bk),
   profitability |-> SqlProfitability(bk),
   quotations |-> SqlQuotations(fq),
   customerTypes |-> SqlCustomerTypes(bk),
   cancellations |-> SqlCancellations(bk, fq)]

(***************************************************************************)
(* The other sessions: the routes that insert and update bookings commit   *)
(* between the awaits of the handler, which opens no transaction.          *)
(***************************************************************************)
MaxCommits == 2
MaxBookings == 2

LineItemA == [productname |-> Str(<<"A">>), quantity |-> Num(1)]
BookingStatuses == {Str(s_paid), Str(s_canceled)}
Totals == {Num(1), Num(2)}
\* the i-th booking of the table: order_id is a serial, created_at the time of the
\* insert, one month after the booking before it
Inserted(b, i) == [b EXCEPT !.order_id = Num(i), !.created_at = i]

NewBookings ==
  [order_id : {Num(0)}, status : BookingStatuses, total : Totals, amount_paid : {Num(1)},
   district : {Str(s_X)}, customer_type : {Str(<<"R">>)}, created_at : {0},
   products : {JsonArray(<<LineItemA>>)}]
Quotations ==
  [quotation_id : {Num(1)}, status : {Str(s_pending)},
   total : {Num(3)}, district : {Str(s_Y)}, created_at : {1}, products : {NULL}]

InsertBooking ==
  /\ pc # "done" /\ commits < MaxCommits /\ Len(bookings) < MaxBookings
  /\ \E b \in NewBookings :
       bookings' = Append(bookings, Inserted(b, Len(bookings) + 1))
  /\ commits' = commits + 1
  /\ UNCHANGED <<pc, rows, local, err, responses, fwcquotations>>

UpdateBookingStatus ==
  /\ pc # "done" /\ commits < MaxCommits
  /\ \E i \in 1..Len(bookings), st \in BookingStatuses :
       /\ bookings[i].status # st
       /\ bookings' = [bookings EXCEPT ![i].status = st]
  /\ commits' = commits + 1
  /\ UNCHANGED <<pc, rows, local, err, responses, fwcquotations>>

UpdateBookingAmount ==
  /\ pc # "done" /\ commits < MaxCommits
  /\ \E i \in 1..Len(bookings), t \in Totals :
       /\ bookings[i].total # t
       /\ bookings' = [bookings EXCEPT ![i].total = t]
  /\ commits' = commits + 1
  /\ UNCHANGED <<pc, rows, local, err, responses, fwcquotations>>

InitStore ==
  /\ InitHandler
  /\ bookings \in {[i \in 1..Len(t) |-> Inserted(t[i], i)] :
                     t \in SeqsUpTo(NewBookings, MaxBookings)}
  /\ fwcquotations \in {<<q>> : q \in Quotations}
  /\ commits = 0

StoreAnswers == Answers(bookings, fwcquotations)

NextStore ==
  \/ QValidateProducts(StoreAnswers)
  \/ QProducts(StoreAnswers)
  \/ QCityBookings(StoreAnswers)
  \/ QCityQuotations(StoreAnswers)
  \/ QHistorical(StoreAnswers)
  \/ QProfitability(StoreAnswers)
  \/ QQuotations(StoreAnswers)
  \/ QCustomerTypes(StoreAnswers)
  \/ QCancellations(StoreAnswers)
  \/ QueryRejects
  \/ InsertBooking
  \/ UpdateBookingStatus
  \/ UpdateBookingAmount

\* the handler on the tables, with the other sessions writing
SpecStore == InitStore /\ [][NextStore]_vars

(***************************************************************************)
(* The handler on tables whose statuses are spelled in either letter case  *)
(* and whose products may be missing; nothing else writes.                 *)
(***************************************************************************)
SpelledBookings ==
  [order_id : {Num(0)}, status : {Str(s_paid), Str(s_PAID), Str(s_canceled), NULL},
   total : {Num(1)}, amount_paid : {Num(1)}, district : {Str(s_X)},
   customer_type : {Str(<<"R">>)}, created_at : {1},
   products : {NULL, JsonArray(<<LineItemA>>)}]
SpelledQuotations ==
  [quotation_id : {Num(1)}, status : {Str(s_pending), Str(s_Pending), Str(s_canceled)},
   total : {Num(3)}, district : {Str(s_Y)}, created_at : {1},
   products : {NULL, JsonArray(<<LineItemA>>)}]

InitSpelled ==
  /\ InitHandler
  /\ bookings \in {[i \in 1..Len(t) |-> [t[i] EXCEPT !.order_id = Num(i)]] :
                     t \in SeqsUpTo(SpelledBookings, MaxBookings)}
  /\ fwcquotations \in SeqsUpTo(SpelledQuotations, 1)
  /\ commits = 0

NextSpelled ==
  \/ QValidateProducts(StoreAnswers)
  \/ QProducts(StoreAnswers)
  \/ QCityBookings(StoreAnswers)
  \/ QCityQuotations(StoreAnswers)
  \/ QHistorical(StoreAnswers)
  \/ QProfitability(StoreAnswers)
  \/ QQuotations(StoreAnswers)
  \/ QCustomerTypes(StoreAnswers)
  \/ QCancellations(StoreAnswers)
  \/ QueryRejects

SpecSpelled == InitSpelled /\ [][NextSpelled]_vars

(***************************************************************************)
(* What the claims speak of.                                               *)
(***************************************************************************)
Has(name) == name \in DOMAIN local
Sent200 == \E i \in 1..Len(responses) : responses[i].status = 200

\* what a raw amount of the row level stands for, null counting as zero
AmountMeaning(v) ==
  CASE v = NULL -> 0
    [] v = Str(<<"-", "1">>) -> -1
    [] v = Str(<<"0">>) -> 0
    [] v = Str(<<"1">>) -> 1
    [] v = Str(<<"2">>) -> 2
    [] v = Str(<<"3">>) -> 3
    [] v = Num(1) -> 1
    [] v = Num(2) -> 2
    [] v = Str(s_100) -> 100
    [] v = Str(s_150) -> 150

\* the key a district row is filed under: "Unknown" for an absent or empty district
CityKey(row) == IF row.district \in {NULL, Str(s_empty)} THEN s_Unknown ELSE row.district.str
WithCityKey(rs, k) == {i \in 1..Len(rs) : CityKey(rs[i]) = k}

\* the sum, as JavaScript adds, of the parsed column col of the rows of rs at I
RECURSIVE ParsedSum(_, _, _)
ParsedSum(rs, I, col) ==
  IF I = {} THEN Num(0)
  ELSE LET i == CHOOSE x \in I : TRUE
       IN Plus(ParsedSum(rs, I \ {i}, col), ParseNumber(JsToString(rs[i][col])))

\* the sum of the column col of the rows of rs at I, null counting as zero
RECURSIVE ZeroDefaultedSum(_, _, _)
ZeroDefaultedSum(rs, I, col) ==
  IF I = {} THEN 0
  ELSE LET i == CHOOSE x \in I : TRUE
       IN ZeroDefaultedSum(rs, I \ {i}, col) + AmountMeaning(rs[i][col])

(* C1: in every report, profitability.amount_paid <= profitability.total_amount
   and profitability.unpaid_amount >= 0, also when the summed row has paid >
   total (total 100, paid 150 gives 100, 100, 0). *)
C1_ProfitPaidCapped ==
  Has("profitData") =>
    LET p == local.profitData
    IN /\ IsNum(p.total_amount) /\ IsNum(p.amount_paid) /\ IsNum(p.unpaid_amount)
       /\ p.amount_paid.num <= p.total_amount.num
       /\ p.unpaid_amount.num >= 0

(* C2: in cities, the count and amount of every confirmed-order row are added to
   its district's booking_count and booking_amount, those of every pipeline row
   to quotation_count and quotation_amount; a district of one source only has
   zero in the other source's two counters. *)
WellFormed(rs) == \A i \in 1..Len(rs) : rs[i].count # NULL /\ rs[i].total_amount # NULL

C2_CountersBySource ==
  Has("cityData") /\ WellFormed(rows.cityBookings) /\ WellFormed(rows.cityQuotations) =>
    \A i \in 1..Len(local.cityData) :
      LET c == local.cityData[i]
          k == c.district.str
          b == WithCityKey(rows.cityBookings, k)
          q == WithCityKey(rows.cityQuotations, k)
      IN /\ c.booking_count = ParsedSum(rows.cityBookings, b, "count")
         /\ c.booking_amount = ParsedSum(rows.cityBookings, b, "total_amount")
         /\ c.quotation_count = ParsedSum(rows.cityQuotations, q, "count")
         /\ c.quotation_amount = ParsedSum(rows.cityQuotations, q, "total_amount")

(* C4: cities has exactly one entry for each district key of the confirmed-order
   rows and the pipeline rows (an absent district under "Unknown") and no entry
   for any other key. *)
C4_OneEntryPerDistrict ==
  Has("cityData") =>
    LET all == rows.cityBookings \o rows.cityQuotations
        keys == {CityKey(all[i]) : i \in 1..Len(all)}
        cd == local.cityData
    IN /\ \A k \in keys : Cardinality({i \in 1..Len(cd) : cd[i].district.str = k}) = 1
       /\ \A i \in 1..Len(cd) : cd[i].district.str \in keys

(* C8: every count, amount and quantity of the report is a number: a null or
   unparsable raw value counts as 0 in every aggregator. *)
C8_EveryFieldANumber ==
  /\ Has("productData") =>
       \A i \in 1..Len(local.productData) : IsNum(local.productData[i].quantity)
  /\ Has("cityData") =>
       \A i \in 1..Len(local.cityData) :
         /\ IsNum(local.cityData[i].booking_count)
         /\ IsNum(local.cityData[i].booking_amount)
         /\ IsNum(local.cityData[i].quotation_count)
         /\ IsNum(local.cityData[i].quotation_amount)
         /\ local.cityData[i].quotation_count.num + local.cityData[i].booking_count.num
              = ZeroDefaultedSum(rows.cityBookings \o rows.cityQuotations,
                  WithCityKey(rows.cityBookings \o rows.cityQuotations,
                              local.cityData[i].district.str), "count")
  /\ Has("trendDataArray") =>
       \A i \in 1..Len(local.trendDataArray) :
         /\ IsNum(local.trendDataArray[i].volume)
         /\ IsNum(local.trendDataArray[i].total_amount)
         /\ IsNum(local.trendDataArray[i].amount_paid)
         /\ IsNum(local.trendDataArray[i].unpaid_amount)
  /\ Has("profitData") =>
       /\ IsNum(local.profitData.total_amount)
       /\ IsNum(local.profitData.amount_paid)
       /\ IsNum(local.profitData.unpaid_amount)
  /\ Has("quotationSummary") =>
       \A b \in {"pending", "booked", "canceled"} :
         /\ IsNum(local.quotationSummary[b].count)
         /\ IsNum(local.quotationSummary[b].total_amount)
  /\ Has("customerTypeData") =>
       \A i \in 1..Len(local.customerTypeData) :
         /\ IsNum(local.customerTypeData[i].count)
         /\ IsNum(local.customerTypeData[i].total_amount)
  /\ Has("cancellationData") =>
       \A i \in 1..Len(local.cancellationData) : IsNum(local.cancellationData[i].total)

\* the rows of rs whose name, trimmed, is n
WithName(rs, n) ==
  {i \in 1..Len(rs) : rs[i].productname # NULL /\ Trim(rs[i].productname.str) = n}

(* C7: products has exactly one entry per distinct trimmed non-blank product
   name of the line-item rows, its quantity is the sum of the zero-defaulted
   quantities of the rows of that name, rows with an absent or blank name add
   to no entry, and the entries are in non-increasing order of quantity. *)
C7_ProductsSummedAndSorted ==
  Has("productData") =>
    LET rs == rows.products
        pd == local.productData
        names == {Trim(rs[i].productname.str) :
                    i \in {j \in 1..Len(rs) : rs[j].productname # NULL}} \ {<<>>}
    IN /\ \A n \in names :
            /\ Cardinality({i \in 1..Len(pd) : pd[i].productname = Str(n)}) = 1
            /\ \A i \in 1..Len(pd) :
                 pd[i].productname = Str(n) =>
                   pd[i].quantity = Num(ZeroDefaultedSum(rs, WithName(rs, n), "quantity"))
       /\ \A i \in 1..Len(pd) : pd[i].productname.str \in names
       /\ \A i, j \in 1..Len(pd) :
            i < j => IsNum(pd[i].quantity) /\ IsNum(pd[j].quantity)
                       /\ pd[i].quantity.num >= pd[j].quantity.num

(* C5: for every month row of the historical query the trend point has
   amount_paid <= total_amount, unpaid_amount >= 0 and unpaid_amount =
   max(0, total_amount - raw paid), also when raw paid > raw total; the points
   come one per row, in the order of the rows (months ascending). *)
C5_TrendPointsCapped ==
  Has("trendDataArray") =>
    LET rs == rows.historical
        td == local.trendDataArray
    IN /\ Len(td) = Len(rs)
       /\ \A i \in 1..Len(td) :
            LET rawTotal == AmountMeaning(rs[i].total_amount)
                rawPaid == AmountMeaning(rs[i].amount_paid)
            IN /\ td[i].month = rs[i].month
               /\ td[i].total_amount = Num(rawTotal)
               /\ IsNum(td[i].amount_paid) /\ IsNum(td[i].unpaid_amount)
               /\ td[i].amount_paid.num <= td[i].total_amount.num
               /\ td[i].unpaid_amount.num >= 0
               /\ td[i].unpaid_amount.num
                    = (IF rawTotal - rawPaid > 0 THEN rawTotal - rawPaid ELSE 0)
       /\ \A i, j \in 1..Len(td) : i < j => td[i].month # td[j].month

\* two month rows, the second with raw paid 150 over raw total 100, capped
C5_Witness ==
  /\ Has("trendDataArray")
  /\ Len(rows.historical) = 2
  /\ rows.historical[2].total_amount = Str(s_100)
  /\ rows.historical[2].amount_paid = Str(s_150)
  /\ local.trendDataArray[2].amount_paid = Num(100)
  /\ local.trendDataArray[2].unpaid_amount = Num(0)
  /\ rows.historical[1].amount_paid = NULL

\* the bucket a status-grouped row is counted in, "none" for no bucket
BucketAsClaimed(row) ==
  IF row.status \in {Str(s_pending), Str(s_booked), Str(s_canceled)} THEN row.status.str
  ELSE <<"n", "o", "n", "e">>
BucketAsAmended(row) ==
  IF row.status \in {NULL, Str(s_empty)} THEN s_canceled ELSE BucketAsClaimed(row)

BucketKeys == [pending |-> s_pending, booked |-> s_booked, canceled |-> s_canceled]

(* C6 as claimed: a status-grouped row adds its count and amount to a bucket
   only if its status is pending, booked or canceled, and then to that bucket;
   a row of any other status, an absent one included, adds to none. *)
C6_AsClaimed ==
  Has("quotationSummary") /\ WellFormed(rows.quotations) =>
    \A b \in DOMAIN BucketKeys :
      LET rs == rows.quotations
          I == {i \in 1..Len(rs) : BucketAsClaimed(rs[i]) = BucketKeys[b]}
      IN /\ local.quotationSummary[b].count = ParsedSum(rs, I, "count")
         /\ local.quotationSummary[b].total_amount = Num(ZeroDefaultedSum(rs, I, "total_amount"))

(* C6 as amended: a row adds its count and amount to the bucket of its status
   when that is pending, booked or canceled, to the canceled bucket when its
   status is absent (null or empty), and to no bucket otherwise; each bucket's
   count is the sum of the parsed counts of its rows, its total_amount the sum
   of their zero-defaulted amounts. *)
C6_BucketsByStatus ==
  Has("quotationSummary") =>
    \A b \in DOMAIN BucketKeys :
      LET rs == rows.quotations
          I == {i \in 1..Len(rs) : BucketAsAmended(rs[i]) = BucketKeys[b]}
      IN /\ local.quotationSummary[b].count = ParsedSum(rs, I, "count")
         /\ local.quotationSummary[b].total_amount = Num(ZeroDefaultedSum(rs, I, "total_amount"))

\* a row of absent status counted as canceled, beside a row of an unknown status
C6_Witness ==
  /\ Has("quotationSummary")
  /\ \E i, j \in 1..Len(rows.quotations) :
       /\ rows.quotations[i].status = NULL /\ rows.quotations[i].count = Str(<<"2">>)
       /\ rows.quotations[j].status = Str(s_draft) /\ rows.quotations[j].count = Str(<<"2">>)
  /\ local.quotationSummary.canceled.count = Num(2)
  /\ local.quotationSummary.pending.count = Num(0)

(* C3: when a query of the handler rejects, the invocation sends exactly one
   response, of status 500 with the body {message, error} and none of the
   report's fields; a 200 is sent only after every query has returned, and no
   invocation sends both a 200 and a 500. *)
C3_OneResponse ==
  /\ Len(responses) <= 1
  /\ pc = "done" => Len(responses) = 1
  /\ err # "none" =>
       /\ Len(responses) = 1
       /\ responses[1].status = 500
       /\ DOMAIN responses[1].body = {"message", "error"}
       /\ responses[1].body.error = err
  /\ \A i \in 1..Len(responses) :
       responses[i].status = 200 =>
         /\ err = "none"
         /\ DOMAIN rows = QueryNames
         /\ DOMAIN responses[i].body =
              {"products", "cities", "trends", "profitability", "quotations",
               "customer_types", "cancellations"}

\* the historical query rejected after three facets were computed
C3_Witness ==
  /\ err = "historical"
  /\ Has("productData") /\ Has("cityData")
  /\ Len(local.productData) = 1
  /\ Len(responses) = 1
  /\ responses[1].status = 500

RECURSIVE FieldSum(_, _)
FieldSum(seq, field) ==
  IF seq = <<>> THEN 0 ELSE Head(seq)[field].num + FieldSum(Tail(seq), field)

\* the facets that read bookings agree with one another
FacetsAgree ==
  /\ local.profitData.total_amount.num = FieldSum(local.trendDataArray, "total_amount")
  /\ FieldSum(local.trendDataArray, "volume")
       = FieldSum([i \in 1..Len(rows.cityBookings) |->
                     [count |-> parseInt(rows.cityBookings[i].count)]], "count")

(* C9 as claimed: every facet of a report is computed from one store state, also
   when other sessions commit between the awaited queries: profitability's
   total_amount is the sum of the trend points' total_amount, and the sum of
   the trend volumes is the number of confirmed orders the regional query
   counted. *)
C9_AsClaimed == pc = "done" /\ Sent200 => FacetsAgree

(* C9 as amended: each facet is computed from the tables as committed when its
   own query runs; when no other session commits during the invocation, every
   query's rows are those of the one store state and the facets agree. *)
C9_AgreeWithoutCommits ==
  pc = "done" /\ Sent200 /\ commits = 0 =>
    /\ FacetsAgree
    /\ \A q \in QueryNames : rows[q] \in StoreAnswers[q]

\* a report over two confirmed orders of different months, with no commit in between
C9_Witness ==
  /\ pc = "done" /\ Sent200 /\ commits = 0
  /\ Len(bookings) = 2
  /\ bookings[1].status = Str(s_paid) /\ bookings[1].total = Num(1)
  /\ bookings[2].status = Str(s_paid) /\ bookings[2].total = Num(2)
  /\ Len(local.trendDataArray) = 2
  /\ local.profitData.total_amount = Num(3)

\* the table t with every status in lower case
Lowered(t) == [i \in 1..Len(t) |-> [t[i] EXCEPT !.status = LOWER(@)]]

(* C10: every status test of the handler's queries, the probe's included, is
   case-insensitive: a record whose status differs from a member of the fixed
   sets only in letter case is selected exactly when its lower-case spelling
   would be. *)
C10_CaseInsensitive ==
  \A q \in DOMAIN rows : rows[q] \in Answers(Lowered(bookings), Lowered(fwcquotations))[q]

====
